---- MODULE Spec2Model ----
(***************************************************************************)
(* Model of bikeshare.py: the prompt parser (get_user_choice), the filter  *)
(* selection loop (get_filters), the loader and filter (load_data), the    *)
(* statistics actions, the raw-data paginator (display_raw_data) and the   *)
(* session loop (main).                                                    *)
(*                                                                         *)
(* A Python str is a sequence of one-character strings, so that lower(),   *)
(* strip(), split(',') and title() are computed character by character.    *)
(***************************************************************************)
EXTENDS Integers, Sequences, FiniteSets, TLC

VARIABLES
    files,        \* contents of the csv files: file name -> [rows, cols]
    pc,           \* the prompt the program is blocked on, or how it ended
    line,         \* the line most recently read by input()
    valid,        \* valid_choices of the most recent get_user_choice call
    result,       \* outcome of the most recent get_user_choice iteration
    filters,      \* get_filters locals: city, month, day
    city,         \* main local: city
    month,        \* main local: month
    day,          \* main local: day
    df,           \* main local: the DataFrame, [rows, cols]
    start_index,  \* main local: start_index
    rd_index,     \* display_raw_data local: start_index
    view_from,    \* index of the first page of that display_raw_data call
    out,          \* what the most recent step printed
    shown         \* row positions printed by the display_raw_data call under way
                  \* or returned in the most recent step

vars == <<files, pc, line, valid, result, filters, city, month, day, df,
          start_index, rd_index, view_from, out, shown>>

----------------------------------------------------------------------------
(* Bounds *)

MaxLen == 4       \* longest input line drawn for the parser specification
MaxSel == 2       \* most comma-separated tokens drawn for a selector line
MaxRows == 2      \* most rows drawn for a csv file in the loader specification
MaxIndex == 20    \* cap on start_index in the session specification
MaxDuration == 90061  \* longest Trip Duration drawn for the duration specification

----------------------------------------------------------------------------
(* Characters and strings *)

UpperSeq == <<"A","B","C","D","E","F","G","H","I","J","K","L","M",
              "N","O","P","Q","R","S","T","U","V","W","X","Y","Z">>
LowerSeq == <<"a","b","c","d","e","f","g","h","i","j","k","l","m",
              "n","o","p","q","r","s","t","u","v","w","x","y","z">>

Whitespace == {" ", "\t"}

IsUpper(c) == \E i \in 1..26 : UpperSeq[i] = c
IsLower(c) == \E i \in 1..26 : LowerSeq[i] = c
IsAlpha(c) == IsUpper(c) \/ IsLower(c)

LowerChar(c) == IF IsUpper(c) THEN LowerSeq[CHOOSE i \in 1..26 : UpperSeq[i] = c] ELSE c
UpperChar(c) == IF IsLower(c) THEN UpperSeq[CHOOSE i \in 1..26 : LowerSeq[i] = c] ELSE c

\* str.lower()
Lower(s) == [i \in 1..Len(s) |-> LowerChar(s[i])]

\* str.strip(): drop leading, then trailing, whitespace
RECURSIVE LStrip(_)
LStrip(s) == IF s # <<>> /\ Head(s) \in Whitespace THEN LStrip(Tail(s)) ELSE s

RECURSIVE RStrip(_)
RStrip(s) == IF s # <<>> /\ s[Len(s)] \in Whitespace
             THEN RStrip(SubSeq(s, 1, Len(s) - 1)) ELSE s

Strip(s) == RStrip(LStrip(s))

\* str.split(','): always at least one piece
RECURSIVE SplitFrom(_, _)
SplitFrom(s, cur) ==
    IF s = <<>> THEN <<cur>>
    ELSE IF Head(s) = "," THEN <<cur>> \o SplitFrom(Tail(s), <<>>)
    ELSE SplitFrom(Tail(s), Append(cur, Head(s)))

Split(s) == SplitFrom(s, <<>>)

\* str.title(): a letter is upper-cased when it follows a non-letter (or
\* starts the string) and lower-cased otherwise
Title(s) == [i \in 1..Len(s) |->
               IF i = 1 \/ ~IsAlpha(s[i - 1]) THEN UpperChar(s[i]) ELSE LowerChar(s[i])]

HasComma(s) == \E i \in 1..Len(s) : s[i] = ","

----------------------------------------------------------------------------
(* Module-level data of bikeshare.py *)

S_chicago == <<"c","h","i","c","a","g","o">>
S_new_york_city == <<"n","e","w"," ","y","o","r","k"," ","c","i","t","y">>
S_washington == <<"w","a","s","h","i","n","g","t","o","n">>

CITY_DATA ==
    [c \in {S_chicago, S_new_york_city, S_washington} |->
        IF c = S_chicago THEN "chicago.csv"
        ELSE IF c = S_new_york_city THEN "new_york_city.csv"
        ELSE "washington.csv"]

months == << <<"j","a","n","u","a","r","y">>,
             <<"f","e","b","r","u","a","r","y">>,
             <<"m","a","r","c","h">>,
             <<"a","p","r","i","l">>,
             <<"m","a","y">>,
             <<"j","u","n","e">> >>

weekdays == << <<"s","u","n","d","a","y">>,
               <<"m","o","n","d","a","y">>,
               <<"t","u","e","s","d","a","y">>,
               <<"w","e","d","n","e","s","d","a","y">>,
               <<"t","h","u","r","s","d","a","y">>,
               <<"f","r","i","d","a","y">>,
               <<"s","a","t","u","r","d","a","y">> >>

S_end == <<"e","n","d">>
S_y == <<"y">>
S_n == <<"n">>
S_ts == <<"t","s">>
S_ss == <<"s","s">>
S_tds == <<"t","d","s">>
S_us == <<"u","s">>
S_rd == <<"r","d">>
S_r == <<"r">>

Range(f) == {f[i] : i \in DOMAIN f}

CityChoices == DOMAIN CITY_DATA
MonthChoices == Range(months)
WeekdayChoices == Range(weekdays)
YesNoChoices == {S_y, S_n}
MenuChoices == {S_ts, S_ss, S_tds, S_us, S_rd, S_r}

----------------------------------------------------------------------------
(* Python values returned by get_user_choice: a str or a list of str *)

PyStr(s) == [isList |-> FALSE, str |-> s, items |-> <<>>]
PyList(l) == [isList |-> TRUE, str |-> <<>>, items |-> l]
None == [isList |-> FALSE, str |-> <<>>, items |-> <<>>]

\* one iteration of the while loop of get_user_choice on the line read:
\* "exit" is raise SystemExit, "accept" is a return, "reject" falls through
\* to the 'Invalid input' print and the next iteration
GetUserChoice_anyMut(ln, valid_choices) ==
    LET user_input == Strip(Lower(ln)) IN
    IF user_input = S_end THEN [status |-> "exit", value |-> None]
    ELSE IF ~HasComma(user_input) THEN
        IF user_input \in valid_choices
        THEN [status |-> "accept", value |-> PyStr(user_input)]
        ELSE [status |-> "reject", value |-> None]
    ELSE
        LET pieces == Split(user_input)
            choices == [i \in 1..Len(pieces) |-> Lower(Strip(pieces[i]))] IN
        IF \E i \in 1..Len(choices) : choices[i] \in valid_choices
        THEN [status |-> "accept", value |-> PyList(choices)]
        ELSE [status |-> "reject", value |-> None]

GetUserChoice_rawSentinelMut(ln, valid_choices) ==
    LET user_input == Strip(Lower(ln)) IN
    IF ln = S_end THEN [status |-> "exit", value |-> None]
    ELSE IF ~HasComma(user_input) THEN
        IF user_input \in valid_choices
        THEN [status |-> "accept", value |-> PyStr(user_input)]
        ELSE [status |-> "reject", value |-> None]
    ELSE
        LET pieces == Split(user_input)
            choices == [i \in 1..Len(pieces) |-> Lower(Strip(pieces[i]))] IN
        IF \A i \in 1..Len(choices) : choices[i] \in valid_choices
        THEN [status |-> "accept", value |-> PyList(choices)]
        ELSE [status |-> "reject", value |-> None]

GetUserChoice(ln, valid_choices) ==
    LET user_input == Strip(Lower(ln)) IN
    IF user_input = S_end THEN [status |-> "exit", value |-> None]
    ELSE IF ~HasComma(user_input) THEN
        IF user_input \in valid_choices
        THEN [status |-> "accept", value |-> PyStr(user_input)]
        ELSE [status |-> "reject", value |-> None]
    ELSE
        LET pieces == Split(user_input)
            choices == [i \in 1..Len(pieces) |-> Lower(Strip(pieces[i]))] IN
        IF \A i \in 1..Len(choices) : choices[i] \in valid_choices
        THEN [status |-> "accept", value |-> PyList(choices)]
        ELSE [status |-> "reject", value |-> None]

NoResult == [status |-> "none", value |-> None]

\* a printed message: its kind and, where it names something, the name
Ev(name) == [ev |-> name, arg |-> <<>>]
EvNaming(name, who) == [ev |-> name, arg |-> who]

NoView == -1

----------------------------------------------------------------------------
(* DataFrames.  A csv row carries its Start Time, reduced to the two parts  *)
(* the program reads (calendar month 1..12, pandas dayofweek 0 = Monday),   *)
(* its Trip Duration in seconds and its Birth Year (NaN when missing).     *)
(* src and idx identify the row.                                            *)

NaN == 0

BaseCols == {"Start Time", "End Time", "Start Station", "End Station",
             "Trip Duration", "UserType"}
OptionalCols == {"Gender", "Birth Year"}

\* Timestamp.day_name() for dayofweek 0..6
DayNames == << <<"M","o","n","d","a","y">>,
               <<"T","u","e","s","d","a","y">>,
               <<"W","e","d","n","e","s","d","a","y">>,
               <<"T","h","u","r","s","d","a","y">>,
               <<"F","r","i","d","a","y">>,
               <<"S","a","t","u","r","d","a","y">>,
               <<"S","u","n","d","a","y">> >>

DayName(dow) == DayNames[dow + 1]

\* a csv file that does not exist is not in the domain of fs
Readable(fs, name) == name \in DOMAIN fs

\* pd.read_csv raises FileNotFoundError for a file that does not exist, and
\* load_data catches nothing: lines 89-92 raise when a selected city's file
\* is missing
LoadRaises_skipMut(fs, cty) == FALSE

LoadRaises(fs, cty) ==
    IF cty.isList
    THEN \E i \in 1..Len(cty.items) : ~Readable(fs, CITY_DATA[cty.items[i]])
    ELSE ~Readable(fs, CITY_DATA[cty.str])

\* pd.read_csv(name), where it returns
ReadCsv(fs, name) ==
    IF ~Readable(fs, name) THEN [rows |-> <<>>, cols |-> BaseCols] ELSE
    [rows |-> [i \in 1..Len(fs[name].rows) |->
                 [src |-> name, idx |-> i,
                  start |-> fs[name].rows[i].start,
                  dur |-> fs[name].rows[i].dur,
                  birth |-> IF "Birth Year" \in fs[name].cols
                            THEN fs[name].rows[i].birth ELSE NaN]],
     cols |-> BaseCols \cup fs[name].cols]

\* pd.concat(frames): rows in order, union of the columns
RECURSIVE Concat(_)
Concat(frames) ==
    IF frames = <<>> THEN [rows |-> <<>>, cols |-> {}]
    ELSE LET rest == Concat(Tail(frames)) IN
         [rows |-> Head(frames).rows \o rest.rows,
          cols |-> Head(frames).cols \cup rest.cols]

\* df[df['Month'] == k]: the rows of that month, in order
RECURSIVE SelectMonth(_, _)
SelectMonth(rows, k) ==
    IF rows = <<>> THEN <<>>
    ELSE IF Head(rows).Month = k THEN <<Head(rows)>> \o SelectMonth(Tail(rows), k)
    ELSE SelectMonth(Tail(rows), k)

\* df[df['Weekday'] == name]: the rows of that weekday, in order
RECURSIVE SelectWeekday(_, _)
SelectWeekday(rows, name) ==
    IF rows = <<>> THEN <<>>
    ELSE IF Head(rows).Weekday = name THEN <<Head(rows)>> \o SelectWeekday(Tail(rows), name)
    ELSE SelectWeekday(Tail(rows), name)

\* tuple.index(x), 0-based
Index(t, x) == (CHOOSE i \in 1..Len(t) : t[i] = x /\ \A j \in 1..(i - 1) : t[j] # x) - 1

\* the three derived columns of load_data
WithDerived(frame) ==
    [rows |-> [i \in 1..Len(frame.rows) |->
                 [src |-> frame.rows[i].src, idx |-> frame.rows[i].idx,
                  start |-> frame.rows[i].start, dur |-> frame.rows[i].dur,
                  birth |-> frame.rows[i].birth,
                  Month |-> frame.rows[i].start.month,
                  Weekday |-> DayName(frame.rows[i].start.dow)]],
     cols |-> frame.cols \cup {"Month", "Weekday", "Start Hour"}]

FilterMonth_zeroBasedMut(frame, m) ==
    [rows |-> SelectMonth(frame.rows, Index(months, m)), cols |-> frame.cols]

FilterMonth(frame, m) ==
    [rows |-> SelectMonth(frame.rows, Index(months, m) + 1), cols |-> frame.cols]

FilterWeekday_noTitleMut(frame, d) ==
    [rows |-> SelectWeekday(frame.rows, d), cols |-> frame.cols]

FilterWeekday(frame, d) ==
    [rows |-> SelectWeekday(frame.rows, Title(d)), cols |-> frame.cols]

\* lines 89-98 of load_data: read the selected files and derive the columns
LoadedFrame(fs, cty) ==
    WithDerived(IF cty.isList
                THEN Concat([i \in 1..Len(cty.items) |-> ReadCsv(fs, CITY_DATA[cty.items[i]])])
                ELSE ReadCsv(fs, CITY_DATA[cty.str]))

\* lines 100-110 of load_data: filter by month, then by weekday
FilterFrame(d0, mth, dy) ==
    LET d1 == IF mth.isList
              THEN Concat([i \in 1..Len(mth.items) |-> FilterMonth(d0, mth.items[i])])
              ELSE FilterMonth(d0, mth.str)
    IN IF dy.isList
       THEN Concat([i \in 1..Len(dy.items) |-> FilterWeekday(d1, dy.items[i])])
       ELSE FilterWeekday(d1, dy.str)

LoadData(fs, cty, mth, dy) == FilterFrame(LoadedFrame(fs, cty), mth, dy)

----------------------------------------------------------------------------
(* Specification of the parser alone: one get_user_choice iteration applied *)
(* to every line of at most MaxLen characters over ParseAlphabet.           *)

ParseAlphabet == {"y", "n", "N", "e", "d", "r", " ", ","}

RECURSIVE SeqsUpTo(_, _)
SeqsUpTo(S, n) ==
    IF n = 0 THEN {<<>>}
    ELSE LET shorter == SeqsUpTo(S, n - 1) IN
         shorter \cup {Append(s, c) : s \in {t \in shorter : Len(t) = n - 1}, c \in S}

EmptyFrame == [rows |-> <<>>, cols |-> {}]
NoFilters == [city |-> None, month |-> None, day |-> None]

InitParse ==
    /\ line \in SeqsUpTo(ParseAlphabet, MaxLen)
    /\ valid \in {YesNoChoices, MenuChoices}
    /\ pc = "call_parse"
    /\ result = NoResult
    /\ files = [f \in Range(CITY_DATA) |-> EmptyFrame]
    /\ filters = NoFilters
    /\ city = None /\ month = None /\ day = None
    /\ df = EmptyFrame
    /\ start_index = 0
    /\ rd_index = 0
    /\ view_from = NoView
    /\ out = <<>>
    /\ shown = <<>>

ParseStep ==
    /\ pc = "call_parse"
    /\ result' = GetUserChoice(line, valid)
    /\ pc' = "parsed"
    /\ out' = IF result'.status = "reject" THEN <<Ev("invalid")>> ELSE <<>>
    /\ UNCHANGED <<files, line, valid, filters, city, month, day, df, start_index,
                   rd_index, view_from, shown>>

NextParse == ParseStep

SpecParse == InitParse /\ [][NextParse]_vars

----------------------------------------------------------------------------
(* C2: get_user_choice accepts a line other than the escape sentinel if and *)
(* only if every token (the whole trimmed, lower-cased line when it has no  *)
(* comma, otherwise each comma-separated piece trimmed and lower-cased) is  *)
(* in the valid set; on acceptance the returned value holds exactly those   *)
(* tokens, in order; otherwise nothing is returned and the invalid-input    *)
(* notice precedes the repeated prompt.                                     *)

\* the tokens of a line, stated by positions rather than by the code's loops
TrimOf(s) ==
    LET ns == {i \in 1..Len(s) : s[i] \notin Whitespace} IN
    IF ns = {} THEN <<>>
    ELSE SubSeq(s, CHOOSE i \in ns : \A j \in ns : i <= j,
                   CHOOSE i \in ns : \A j \in ns : i >= j)

CommaAt(s) == {i \in 1..Len(s) : s[i] = ","}

TokensOf(s) ==
    LET cuts == CommaAt(s) \cup {0, Len(s) + 1}
        starts == cuts \ {Len(s) + 1}
        nth(k) == CHOOSE a \in starts : Cardinality({b \in starts : b < a}) = k - 1
        next(a) == CHOOSE b \in cuts : b > a /\ \A c \in cuts : c > a => b <= c
    IN [k \in 1..Cardinality(starts) |->
          Lower(TrimOf(SubSeq(s, nth(k) + 1, next(nth(k)) - 1)))]

IsSentinel(s) == Lower(TrimOf(s)) = S_end

C2_ParserAcceptsExactlyValidTokens ==
    pc = "parsed" /\ ~IsSentinel(line) =>
        LET toks == TokensOf(line)
            allValid == \A k \in 1..Len(toks) : toks[k] \in valid IN
        /\ result.status \in {"accept", "reject"}
        /\ (result.status = "accept") <=> allValid
        /\ result.status = "accept" =>
              IF CommaAt(line) = {}
              THEN result.value = PyStr(toks[1])
              ELSE result.value = PyList(toks)
        /\ result.status = "reject" => result.value = None /\ out = <<Ev("invalid")>>

C2_Witness ==
    /\ pc = "parsed"
    /\ result.status = "accept"
    /\ result.value.isList
    /\ Len(result.value.items) = 2
    /\ \E i \in 1..Len(line) : line[i] \in Whitespace \/ IsUpper(line[i])

----------------------------------------------------------------------------
(* Specification of the loader alone: load_data applied to csv files of at  *)
(* most MaxRows rows and to the selectors get_user_choice returns for lines *)
(* of at most MaxSel tokens (and for the lines naming every month, every    *)
(* weekday).                                                                *)

RECURSIVE JoinComma(_)
JoinComma(toks) ==
    IF Len(toks) = 1 THEN toks[1]
    ELSE toks[1] \o <<",">> \o JoinComma(Tail(toks))

SelectorLines(tokens) ==
    {JoinComma(ts) : ts \in SeqsUpTo(tokens, MaxSel) \ {<<>>}}

\* the values get_user_choice returns for the given lines
Returned(lines, valid_choices) ==
    {GetUserChoice(l, valid_choices).value :
        l \in {x \in lines : GetUserChoice(x, valid_choices).status = "accept"}}

CityTokens == {S_chicago, <<"W","a","s","h","i","n","g","t","o","n">>}
MonthTokens == {months[1], <<" ","J","u","n","e">>}
DayTokens == {weekdays[2], <<"S","u","n","d","a","y"," ">>}

Stamps == {[month |-> 1, dow |-> 0], [month |-> 6, dow |-> 6], [month |-> 7, dow |-> 0]}

CsvRows(stamps) == [i \in 1..Len(stamps) |-> [start |-> stamps[i], dur |-> 600, birth |-> 1990]]

InitLoad ==
    /\ \E st \in SeqsUpTo(Stamps, MaxRows) :
          files = [f \in Range(CITY_DATA) |->
                     IF f = "chicago.csv"
                     THEN [rows |-> CsvRows(st), cols |-> OptionalCols]
                     ELSE IF f = "washington.csv"
                     THEN [rows |-> CsvRows(<<[month |-> 1, dow |-> 0]>>), cols |-> {}]
                     ELSE [rows |-> <<>>, cols |-> OptionalCols]]
    /\ city \in Returned(SelectorLines(CityTokens), CityChoices)
    /\ month \in Returned(SelectorLines(MonthTokens) \cup {JoinComma(months)}, MonthChoices)
    /\ day \in Returned(SelectorLines(DayTokens) \cup {JoinComma(weekdays)}, WeekdayChoices)
    /\ filters = [city |-> city, month |-> month, day |-> day]
    /\ pc = "call_load"
    /\ line = <<>>
    /\ valid = {}
    /\ result = NoResult
    /\ df = EmptyFrame
    /\ start_index = 0
    /\ rd_index = 0
    /\ view_from = NoView
    /\ out = <<>>
    /\ shown = <<>>

LoadStep ==
    /\ pc = "call_load"
    /\ df' = LoadData(files, city, month, day)
    /\ pc' = "loaded"
    /\ out' = <<Ev("loaded")>>
    /\ UNCHANGED <<files, line, valid, result, filters, city, month, day, start_index,
                   rd_index, view_from, shown>>

NextLoad == LoadStep

SpecLoad == InitLoad /\ [][NextLoad]_vars

----------------------------------------------------------------------------
(* Vocabulary of the loader properties *)

Chosen(sel) == IF sel.isList THEN Range(sel.items) ELSE {sel.str}

ChosenFiles == {CITY_DATA[c] : c \in Chosen(city)}

\* the csv row i of file f starts in a selected month and on a selected weekday;
\* weekdays[k] names pandas dayofweek (k + 5) % 7
MonthSelected(st) == \E k \in 1..Len(months) : months[k] \in Chosen(month) /\ st.month = k
WeekdaySelected(st) ==
    \E k \in 1..Len(weekdays) : weekdays[k] \in Chosen(day) /\ st.dow = (k + 5) % 7

Occurrences(rows, f, i) == Cardinality({j \in 1..Len(rows) : rows[j].src = f /\ rows[j].idx = i})

(* C1: the rows load_data returns are exactly the rows of the selected      *)
(* cities' files whose start month is a selected month and whose start      *)
(* weekday is a selected weekday: none left out, none other included.       *)
C1_LoadReturnsExactlyMatchingRows ==
    pc = "loaded" =>
        /\ \A f \in ChosenFiles : \A i \in 1..Len(files[f].rows) :
              (MonthSelected(files[f].rows[i].start) /\ WeekdaySelected(files[f].rows[i].start))
                 <=> Occurrences(df.rows, f, i) > 0
        /\ \A j \in 1..Len(df.rows) :
              /\ df.rows[j].src \in ChosenFiles
              /\ df.rows[j].idx \in 1..Len(files[df.rows[j].src].rows)
              /\ df.rows[j].start = files[df.rows[j].src].rows[df.rows[j].idx].start

C1_Witness ==
    /\ pc = "loaded"
    /\ city.isList /\ month.isList /\ day.isList
    /\ Len(files["chicago.csv"].rows) = 2
    /\ Len(df.rows) > 0
    /\ \E i \in 1..2 : Occurrences(df.rows, "chicago.csv", i) = 0

\* how many times the csv row i of file f occurs in the dataset load_data
\* reads for the selected cities, before any filtering
TimesChosen(f) ==
    IF city.isList
    THEN Cardinality({k \in 1..Len(city.items) : CITY_DATA[city.items[k]] = f})
    ELSE IF CITY_DATA[city.str] = f THEN 1 ELSE 0

LoadedCount(f, i) == IF i \in 1..Len(files[f].rows) THEN TimesChosen(f) ELSE 0

EveryMonthOnce == month.isList /\ Len(month.items) = Len(months) /\ Range(month.items) = MonthChoices
EveryWeekdayOnce == day.isList /\ Len(day.items) = Len(weekdays) /\ Range(day.items) = WeekdayChoices

SameContentAsLoaded ==
    \A f \in Range(CITY_DATA) : \A i \in 1..Len(files[f].rows) :
        Occurrences(df.rows, f, i) = LoadedCount(f, i)

LoadedWithinMonths ==
    \A f \in ChosenFiles : \A i \in 1..Len(files[f].rows) :
        files[f].rows[i].start.month \in 1..Len(months)

(* C7 as stated: filtering by all six months and all seven weekdays returns *)
(* the loaded dataset with the same rows and multiplicities.                *)
C7_FullSelectorsKeepEveryRow ==
    pc = "loaded" /\ EveryMonthOnce /\ EveryWeekdayOnce => SameContentAsLoaded

(* C7 amended: filtering by all six months and all seven weekdays returns   *)
(* the loaded dataset with the same rows and multiplicities, provided every *)
(* loaded row starts in one of the six months of the month tuple.           *)
C7_FullSelectorsKeepRowsOfListedMonths ==
    pc = "loaded" /\ EveryMonthOnce /\ EveryWeekdayOnce /\ LoadedWithinMonths
        => SameContentAsLoaded

C7_Witness ==
    /\ pc = "loaded"
    /\ EveryMonthOnce /\ EveryWeekdayOnce /\ LoadedWithinMonths
    /\ city.isList
    /\ Len(df.rows) >= 3
    /\ \E j \in 1..Len(df.rows) : df.rows[j].Month = 6

(* C8: filtering introduces no duplication: a row occurs in the returned    *)
(* dataset at most as often as in the loaded dataset.                       *)
C8_FilteringNeverDuplicatesRows ==
    pc = "loaded" =>
        \A f \in Range(CITY_DATA) : \A i \in 1..Len(files[f].rows) :
            Occurrences(df.rows, f, i) <= LoadedCount(f, i)

----------------------------------------------------------------------------
(* The statistics functions.  Each yields what it printed and whether it    *)
(* returned (ok) or raised an exception nothing catches.                    *)

Traceback == Ev("traceback")

\* Series.mode()[0] of the Month column: the most frequent value, the
\* smallest one on a tie
ModeMonth(rows) ==
    LET present == {rows[i].Month : i \in 1..Len(rows)}
        Count(k) == Cardinality({i \in 1..Len(rows) : rows[i].Month = k})
    IN CHOOSE k \in present :
          \A j \in present : Count(k) > Count(j) \/ (Count(k) = Count(j) /\ k <= j)

\* display_time_stats: mode()[0] of an empty column raises, and so does
\* months[most_common_month - 1] past the end of the tuple
DisplayTimeStats(frame) ==
    IF frame.rows = <<>> THEN [ok |-> FALSE, out |-> <<Ev("time_stats_header"), Traceback>>]
    ELSE IF ModeMonth(frame.rows) - 1 \notin 0..(Len(months) - 1)
    THEN [ok |-> FALSE, out |-> <<Ev("time_stats_header"), Traceback>>]
    ELSE [ok |-> TRUE,
          out |-> <<Ev("time_stats_header"),
                    EvNaming("most_common_month", Title(months[ModeMonth(frame.rows)])),
                    Ev("most_common_day"), Ev("most_common_hour")>>]

DisplayStationStats_dropRowMut(frame) ==
    IF frame.rows = <<>>
    THEN [ok |-> FALSE, out |-> <<Ev("station_stats_header"), Traceback>>, df |-> frame]
    ELSE [ok |-> TRUE,
          out |-> <<Ev("station_stats_header"), Ev("most_common_start_station"),
                    Ev("most_common_end_station"), Ev("most_common_combination")>>,
          df |-> [rows |-> Tail(frame.rows),
                  cols |-> frame.cols \cup {"Start-End Combination"}]]

\* display_station_stats: mode()[0] of an empty column raises before the
\* 'Start-End Combination' column is added
DisplayStationStats(frame) ==
    IF frame.rows = <<>>
    THEN [ok |-> FALSE, out |-> <<Ev("station_stats_header"), Traceback>>, df |-> frame]
    ELSE [ok |-> TRUE,
          out |-> <<Ev("station_stats_header"), Ev("most_common_start_station"),
                    Ev("most_common_end_station"), Ev("most_common_combination")>>,
          df |-> [rows |-> frame.rows, cols |-> frame.cols \cup {"Start-End Combination"}]]

\* str() of a non-negative int, as an f-string renders it
Digits == <<"0","1","2","3","4","5","6","7","8","9">>

RECURSIVE Dec(_)
Dec(n) == IF n < 10 THEN <<Digits[n + 1]>> ELSE Dec(n \div 10) \o <<Digits[(n % 10) + 1]>>

\* df['Trip Duration'].sum(): 0 for an empty column
RECURSIVE SumDur(_)
SumDur(rows) == IF rows = <<>> THEN 0 ELSE Head(rows).dur + SumDur(Tail(rows))

\* line 173: % and // associate to the left, so a % b // c is (a % b) // c
TotalDurationStr_noDayWrapMut(total) ==
    Dec(total \div 86400) \o <<"d", " ">> \o Dec(total \div 3600) \o <<"h", " ">>
        \o Dec((total % 3600) \div 60) \o <<"m", " ">> \o Dec(total % 60) \o <<"s">>

TotalDurationStr(total) ==
    Dec(total \div 86400) \o <<"d", " ">> \o Dec((total % 86400) \div 3600) \o <<"h", " ">>
        \o Dec((total % 3600) \div 60) \o <<"m", " ">> \o Dec(total % 60) \o <<"s">>

\* str() of a non-negative float that is a whole number of halves, given as
\* that number of halves: 251 is 125.5, 4 is 2.0
FloatStr(halves) ==
    Dec(halves \div 2) \o <<".">> \o (IF halves % 2 = 1 THEN <<"5">> ELSE <<"0">>)

\* lines 176-177: mean() is a float (NaN for an empty column), and so are
\* mean // 60 and mean % 60.  The mean is total / count; it is rendered
\* for the datasets whose mean is a whole number of halves, where float
\* arithmetic is exact.
MeanDurationStr(total, count) ==
    IF count = 0 THEN <<"n","a","n","m"," ","n","a","n","s">>
    ELSE LET halves == (2 * total) \div count IN
         FloatStr(2 * (halves \div 120)) \o <<"m", " ">> \o FloatStr(halves % 120) \o <<"s">>

\* display_trip_duration_stats: sum() and mean() of an empty column do not raise
DisplayTripDurationStats(frame) ==
    [ok |-> TRUE,
     out |-> <<Ev("duration_stats_header"),
               EvNaming("total_travel_time", TotalDurationStr(SumDur(frame.rows))),
               EvNaming("average_travel_time",
                        MeanDurationStr(SumDur(frame.rows), Len(frame.rows)))>>]

\* except KeyError: print("No ... data available for {}".format(city.title()))
\* a list has no title(): AttributeError, which the except clause does not catch
Unavailable(what, cty) ==
    IF cty.isList THEN [ok |-> FALSE, out |-> <<Traceback>>]
    ELSE [ok |-> TRUE, out |-> <<EvNaming(what, Title(cty.str))>>]

\* int(df['Birth Year'].min()) raises ValueError when every value is NaN
BirthYearStats(frame) ==
    IF \A i \in 1..Len(frame.rows) : frame.rows[i].birth = NaN
    THEN [ok |-> FALSE, out |-> <<Traceback>>]
    ELSE [ok |-> TRUE, out |-> <<Ev("birth_years")>>]

DisplayUserStats(frame, cty) ==
    LET head == <<Ev("user_stats_header"), Ev("user_types")>>
        gender == IF "Gender" \in frame.cols
                  THEN [ok |-> TRUE, out |-> <<Ev("gender_distribution")>>]
                  ELSE Unavailable("no_gender", cty)
        birth == IF "Birth Year" \in frame.cols
                 THEN BirthYearStats(frame)
                 ELSE Unavailable("no_birth_year", cty)
    IN IF ~gender.ok THEN [ok |-> FALSE, out |-> head \o gender.out]
       ELSE [ok |-> birth.ok, out |-> head \o gender.out \o birth.out]

\* one pass of the while loop of display_raw_data, up to its prompt or break:
\* the positions df.iloc[idx:idx + 5] prints, the advanced index, and whether
\* 'No more data' ended the loop
Min(a, b) == IF a <= b THEN a ELSE b

PageRows_fourMut(frame, idx) ==
    [k \in 1..(IF idx < Len(frame.rows) THEN Min(idx + 4, Len(frame.rows)) - idx ELSE 0)
        |-> idx + k - 1]

PageRows(frame, idx) ==
    [k \in 1..(IF idx < Len(frame.rows) THEN Min(idx + 5, Len(frame.rows)) - idx ELSE 0)
        |-> idx + k - 1]

RawDataPage_strictMut(frame, idx) ==
    [printed |-> PageRows(frame, idx),
     idx |-> idx + 5,
     finished |-> idx + 5 > Len(frame.rows)]

RawDataPage_advanceShownMut(frame, idx) ==
    [printed |-> PageRows(frame, idx),
     idx |-> idx + Len(PageRows(frame, idx)),
     finished |-> idx + Len(PageRows(frame, idx)) >= Len(frame.rows)]

RawDataPage(frame, idx) ==
    [printed |-> PageRows(frame, idx),
     idx |-> idx + 5,
     finished |-> idx + 5 >= Len(frame.rows)]

----------------------------------------------------------------------------
(* The session: main, blocked at one prompt after another.  Each action is  *)
(* one line read by get_user_choice at that prompt and everything the       *)
(* program does until it blocks on the next input() or ends.                *)

Rows(n, m, d, b) ==
    [i \in 1..n |-> [start |-> [month |-> m, dow |-> d], dur |-> 45030, birth |-> b]]

\* three sets of csv files; the third has no washington.csv
Worlds ==
    { [f \in Range(CITY_DATA) |->
         IF f = "chicago.csv"
         THEN [rows |-> Rows(5, 1, 0, 1985) \o Rows(1, 1, 6, NaN) \o Rows(3, 2, 0, 1990)
                        \o Rows(2, 2, 6, 1970) \o Rows(1, 7, 0, 1990),
               cols |-> OptionalCols]
         ELSE IF f = "new_york_city.csv"
         THEN [rows |-> Rows(1, 1, 0, NaN), cols |-> OptionalCols]
         ELSE [rows |-> Rows(2, 1, 0, NaN) \o Rows(1, 3, 1, NaN), cols |-> {}]],
      [f \in Range(CITY_DATA) |->
         IF f = "chicago.csv"
         THEN [rows |-> Rows(3, 1, 0, NaN), cols |-> {}]
         ELSE IF f = "new_york_city.csv"
         THEN [rows |-> <<>>, cols |-> OptionalCols]
         ELSE [rows |-> Rows(1, 1, 0, NaN) \o Rows(4, 2, 6, NaN), cols |-> {"Gender"}]],
      [f \in Range(CITY_DATA) \ {"washington.csv"} |->
         IF f = "chicago.csv"
         THEN [rows |-> Rows(1, 1, 0, 1985), cols |-> OptionalCols]
         ELSE [rows |-> <<>>, cols |-> OptionalCols]] }

\* the lines typed at each prompt
CityLines ==
    {<<"c","h","i","c","a","g","o">>,
     <<"C","h","i","c","a","g","o",","," ","w","a","s","h","i","n","g","t","o","n">>,
     <<"p","a","r","i","s">>,
     <<" ","E","N","D"," ">>}
MonthLines ==
    {<<"j","a","n","u","a","r","y">>,
     <<"J","a","n","u","a","r","y",",","F","e","b","r","u","a","r","y">>,
     <<"j","a","n">>,
     <<"E","n","d">>}
DayLines ==
    {<<"m","o","n","d","a","y">>,
     <<"M","o","n","d","a","y",","," ","S","u","n","d","a","y">>,
     <<"t","u","e","s","d","a","y">>,
     <<"m","o","n","d","a","y",",","m","o","n">>,
     <<"E","N","D">>}
YesNoLines ==
    {<<" ","Y">>,
     <<"n">>,
     <<"y",",","n">>,
     <<"n","o">>,
     <<"e","n","d">>}
MenuLines ==
    {<<"t","s">>,
     <<"s","s">>,
     <<"t","d","s">>,
     <<"u","s">>,
     <<"r","d">>,
     <<"r">>,
     <<"t","s",",","s","s">>,
     <<"x">>,
     <<" ","e","n","d">>}

Init ==
    /\ files \in Worlds
    /\ pc = "city"
    /\ line = <<>>
    /\ valid = {}
    /\ result = NoResult
    /\ filters = NoFilters
    /\ city = None /\ month = None /\ day = None
    /\ df = EmptyFrame
    /\ start_index = 0
    /\ rd_index = 0
    /\ view_from = NoView
    /\ out = <<Ev("welcome")>>
    /\ shown = <<>>

\* input(prompt) returned ln inside get_user_choice(prompt, valid_choices)
Read(ln, valid_choices) ==
    /\ line' = ln
    /\ valid' = valid_choices
    /\ result' = GetUserChoice(ln, valid_choices)

\* raise SystemExit: nothing catches it, the interpreter exits
Exits ==
    /\ pc' = "exited"
    /\ out' = <<>>
    /\ UNCHANGED <<files, filters, city, month, day, df, start_index, rd_index,
                   view_from, shown>>

Reprompts_leavesViewMut ==
    /\ pc' = IF pc \in {"resume", "more"} THEN "menu" ELSE pc
    /\ out' = <<Ev("invalid")>>
    /\ UNCHANGED <<files, filters, city, month, day, df, start_index, rd_index,
                   view_from, shown>>

\* print("Invalid input...") and the next iteration of the while loop
Reprompts ==
    /\ pc' = pc
    /\ out' = <<Ev("invalid")>>
    /\ UNCHANGED <<files, filters, city, month, day, df, start_index, rd_index,
                   view_from, shown>>

\* the while loop of display_raw_data entered at idx, the index chosen after
\* the resume question if there was one
ShowPage(idx, first) ==
    LET page == RawDataPage(df, idx) IN
    /\ page.idx <= MaxIndex
    /\ shown' = (IF first THEN <<>> ELSE shown) \o page.printed
    /\ view_from' = IF first THEN idx ELSE view_from
    /\ rd_index' = page.idx
    /\ IF page.finished
       THEN /\ out' = <<Ev("page"), Ev("no_more")>>
            /\ start_index' = page.idx
            /\ pc' = "menu"
       ELSE /\ out' = <<Ev("page")>>
            /\ start_index' = start_index
            /\ pc' = "more"
    /\ UNCHANGED <<files, filters, city, month, day, df>>

EnterCity ==
    /\ pc = "city"
    /\ \E ln \in CityLines :
          /\ Read(ln, CityChoices)
          /\ IF result'.status = "exit" THEN Exits
             ELSE IF result'.status = "reject" THEN Reprompts
             ELSE /\ filters' = [filters EXCEPT !.city = result'.value]
                  /\ pc' = "month"
                  /\ out' = <<>>
                  /\ UNCHANGED <<files, city, month, day, df, start_index, rd_index,
                                 view_from, shown>>

EnterMonth ==
    /\ pc = "month"
    /\ \E ln \in MonthLines :
          /\ Read(ln, MonthChoices)
          /\ IF result'.status = "exit" THEN Exits
             ELSE IF result'.status = "reject" THEN Reprompts
             ELSE /\ filters' = [filters EXCEPT !.month = result'.value]
                  /\ pc' = "day"
                  /\ out' = <<>>
                  /\ UNCHANGED <<files, city, month, day, df, start_index, rd_index,
                                 view_from, shown>>

EnterDay ==
    /\ pc = "day"
    /\ \E ln \in DayLines :
          /\ Read(ln, WeekdayChoices)
          /\ IF result'.status = "exit" THEN Exits
             ELSE IF result'.status = "reject" THEN Reprompts
             ELSE /\ filters' = [filters EXCEPT !.day = result'.value]
                  /\ pc' = "confirm"
                  /\ out' = <<>>
                  /\ UNCHANGED <<files, city, month, day, df, start_index, rd_index,
                                 view_from, shown>>

EnterConfirmation_anyYesMut ==
    /\ pc = "confirm"
    /\ \E ln \in YesNoLines :
          /\ Read(ln, YesNoChoices)
          /\ IF result'.status = "exit" THEN Exits
             ELSE IF result'.status = "reject" THEN Reprompts
             ELSE IF result'.value # PyStr(S_n)
             THEN /\ city' = filters.city
                  /\ month' = filters.month
                  /\ day' = filters.day
                  /\ IF LoadRaises(files, filters.city)
                     THEN /\ pc' = "crashed"
                          /\ out' = <<Ev("loading"), Traceback>>
                          /\ UNCHANGED <<df, start_index>>
                     ELSE /\ df' = LoadData(files, filters.city, filters.month, filters.day)
                          /\ start_index' = 0
                          /\ pc' = "menu"
                          /\ out' = <<Ev("loading"), Ev("loaded")>>
                  /\ UNCHANGED <<files, filters, rd_index, view_from, shown>>
             ELSE /\ pc' = "city"
                  /\ out' = <<Ev("try_again")>>
                  /\ UNCHANGED <<files, filters, city, month, day, df, start_index,
                                 rd_index, view_from, shown>>

EnterConfirmation_keepIndexMut ==
    /\ pc = "confirm"
    /\ \E ln \in YesNoLines :
          /\ Read(ln, YesNoChoices)
          /\ IF result'.status = "exit" THEN Exits
             ELSE IF result'.status = "reject" THEN Reprompts
             ELSE IF result'.value = PyStr(S_y)
             THEN /\ city' = filters.city
                  /\ month' = filters.month
                  /\ day' = filters.day
                  /\ IF LoadRaises(files, filters.city)
                     THEN /\ pc' = "crashed"
                          /\ out' = <<Ev("loading"), Traceback>>
                          /\ UNCHANGED <<df, start_index>>
                     ELSE /\ df' = LoadData(files, filters.city, filters.month, filters.day)
                          /\ start_index' = start_index
                          /\ pc' = "menu"
                          /\ out' = <<Ev("loading"), Ev("loaded")>>
                  /\ UNCHANGED <<files, filters, rd_index, view_from, shown>>
             ELSE /\ pc' = "city"
                  /\ out' = <<Ev("try_again")>>
                  /\ UNCHANGED <<files, filters, city, month, day, df, start_index,
                                 rd_index, view_from, shown>>

\* the confirmation of get_filters; on 'y' get_filters returns and main
\* loads the data, sets start_index = 0 and prompts the menu, unless
\* load_data raises
EnterConfirmation ==
    /\ pc = "confirm"
    /\ \E ln \in YesNoLines :
          /\ Read(ln, YesNoChoices)
          /\ IF result'.status = "exit" THEN Exits
             ELSE IF result'.status = "reject" THEN Reprompts
             ELSE IF result'.value = PyStr(S_y)
             THEN /\ city' = filters.city
                  /\ month' = filters.month
                  /\ day' = filters.day
                  /\ IF LoadRaises(files, filters.city)
                     THEN /\ pc' = "crashed"
                          /\ out' = <<Ev("loading"), Traceback>>
                          /\ UNCHANGED <<df, start_index>>
                     ELSE /\ df' = LoadData(files, filters.city, filters.month, filters.day)
                          /\ start_index' = 0
                          /\ pc' = "menu"
                          /\ out' = <<Ev("loading"), Ev("loaded")>>
                  /\ UNCHANGED <<files, filters, rd_index, view_from, shown>>
             ELSE /\ pc' = "city"
                  /\ out' = <<Ev("try_again")>>
                  /\ UNCHANGED <<files, filters, city, month, day, df, start_index,
                                 rd_index, view_from, shown>>

\* a statistics function returned or raised
AfterStats(r) ==
    /\ out' = r.out
    /\ pc' = IF r.ok THEN "menu" ELSE "crashed"

\* no display_raw_data call is under way or has just returned
NoViewNow == view_from' = NoView /\ shown' = <<>>

\* the menu of main and the function it dispatches to
EnterSelection ==
    /\ pc = "menu"
    /\ \E ln \in MenuLines :
          /\ Read(ln, MenuChoices)
          /\ IF result'.status = "exit" THEN Exits
             ELSE IF result'.status = "reject" THEN Reprompts
             ELSE IF result'.value = PyStr(S_ts)
             THEN /\ AfterStats(DisplayTimeStats(df))
                  /\ NoViewNow
                  /\ UNCHANGED <<files, filters, city, month, day, df, start_index, rd_index>>
             ELSE IF result'.value = PyStr(S_ss)
             THEN /\ AfterStats(DisplayStationStats(df))
                  /\ df' = DisplayStationStats(df).df
                  /\ NoViewNow
                  /\ UNCHANGED <<files, filters, city, month, day, start_index, rd_index>>
             ELSE IF result'.value = PyStr(S_tds)
             THEN /\ AfterStats(DisplayTripDurationStats(df))
                  /\ NoViewNow
                  /\ UNCHANGED <<files, filters, city, month, day, df, start_index, rd_index>>
             ELSE IF result'.value = PyStr(S_us)
             THEN /\ AfterStats(DisplayUserStats(df, city))
                  /\ NoViewNow
                  /\ UNCHANGED <<files, filters, city, month, day, df, start_index, rd_index>>
             ELSE IF result'.value = PyStr(S_rd)
             THEN IF start_index > 0
                  THEN /\ pc' = "resume"
                       /\ out' = <<Ev("raw_data_header")>>
                       /\ rd_index' = start_index
                       /\ view_from' = NoView
                       /\ shown' = <<>>
                       /\ UNCHANGED <<files, filters, city, month, day, df, start_index>>
                  ELSE ShowPage(start_index, TRUE)
             ELSE IF result'.value = PyStr(S_r)
             THEN /\ pc' = "restart"
                  /\ out' = <<>>
                  /\ NoViewNow
                  /\ UNCHANGED <<files, filters, city, month, day, df, start_index, rd_index>>
             ELSE /\ pc' = "menu"
                  /\ out' = <<>>
                  /\ NoViewNow
                  /\ UNCHANGED <<files, filters, city, month, day, df, start_index, rd_index>>

EnterContinue_resetUnlessYesMut ==
    /\ pc = "resume"
    /\ \E ln \in YesNoLines :
          /\ Read(ln, YesNoChoices)
          /\ IF result'.status = "exit" THEN Exits
             ELSE IF result'.status = "reject" THEN Reprompts
             ELSE ShowPage(IF result'.value # PyStr(S_y) THEN 0 ELSE rd_index, TRUE)

\* 'Continue from where you left off?' of display_raw_data
EnterContinue ==
    /\ pc = "resume"
    /\ \E ln \in YesNoLines :
          /\ Read(ln, YesNoChoices)
          /\ IF result'.status = "exit" THEN Exits
             ELSE IF result'.status = "reject" THEN Reprompts
             ELSE ShowPage(IF result'.value = PyStr(S_n) THEN 0 ELSE rd_index, TRUE)

EnterMore_lostIndexMut ==
    /\ pc = "more"
    /\ \E ln \in YesNoLines :
          /\ Read(ln, YesNoChoices)
          /\ IF result'.status = "exit" THEN Exits
             ELSE IF result'.status = "reject" THEN Reprompts
             ELSE IF result'.value = PyStr(S_n)
             THEN /\ start_index' = start_index
                  /\ pc' = "menu"
                  /\ out' = <<>>
                  /\ UNCHANGED <<files, filters, city, month, day, df, rd_index,
                                 view_from, shown>>
             ELSE ShowPage(rd_index, FALSE)

\* 'Do you want to see more raw data?' of display_raw_data
EnterMore ==
    /\ pc = "more"
    /\ \E ln \in YesNoLines :
          /\ Read(ln, YesNoChoices)
          /\ IF result'.status = "exit" THEN Exits
             ELSE IF result'.status = "reject" THEN Reprompts
             ELSE IF result'.value = PyStr(S_n)
             THEN /\ start_index' = rd_index
                  /\ pc' = "menu"
                  /\ out' = <<>>
                  /\ UNCHANGED <<files, filters, city, month, day, df, rd_index,
                                 view_from, shown>>
             ELSE ShowPage(rd_index, FALSE)

\* 'Would you like to restart?' of main; on 'y' get_filters starts afresh
EnterRestart ==
    /\ pc = "restart"
    /\ \E ln \in YesNoLines :
          /\ Read(ln, YesNoChoices)
          /\ IF result'.status = "exit" THEN Exits
             ELSE IF result'.status = "reject" THEN Reprompts
             ELSE IF result'.value # PyStr(S_y)
             THEN /\ pc' = "done"
                  /\ out' = <<>>
                  /\ UNCHANGED <<files, filters, city, month, day, df, start_index,
                                 rd_index, view_from, shown>>
             ELSE /\ pc' = "city"
                  /\ out' = <<Ev("welcome")>>
                  /\ filters' = NoFilters
                  /\ UNCHANGED <<files, city, month, day, df, start_index, rd_index,
                                 view_from, shown>>

Next ==
    \/ EnterCity
    \/ EnterMonth
    \/ EnterDay
    \/ EnterConfirmation
    \/ EnterSelection
    \/ EnterContinue
    \/ EnterMore
    \/ EnterRestart

Spec == Init /\ [][Next]_vars

----------------------------------------------------------------------------
(* Vocabulary of the session properties *)

Printed(e) == \E k \in 1..Len(out) : out[k] = e
PrintedNext(e) == \E k \in 1..Len(out') : out'[k] = e

Accepted == result.status = "accept"
AcceptedNext == result'.status = "accept"

\* the positions 0 .. n-1 in order
UpTo(n) == [k \in 1..n |-> k - 1]

\* the value a line stands for, from its tokens
ValueOf(ln) == IF CommaAt(ln) = {} THEN PyStr(TokensOf(ln)[1]) ELSE PyList(TokensOf(ln))

Ended == {"done", "exited", "crashed"}

(* C3: a raw-data view that starts at cursor 0 and is continued at every    *)
(* 'see more' prompt prints every row once, in order, five per page, and    *)
(* signals 'no more data' exactly when the advanced cursor first reaches or *)
(* exceeds the size N of the dataset; for N = 0 the first view signals it   *)
(* without asking anything.                                                 *)
C3_PagingFromZeroVisitsEveryRowOnce ==
    LET N == Len(df.rows) IN
    /\ pc = "more" /\ view_from = 0 =>
          /\ rd_index % 5 = 0 /\ rd_index >= 5
          /\ rd_index < N
          /\ shown = UpTo(rd_index)
          /\ ~Printed(Ev("no_more"))
    /\ pc = "menu" /\ view_from = 0 /\ Printed(Ev("no_more")) =>
          /\ shown = UpTo(N)
          /\ start_index % 5 = 0
          /\ start_index >= N
          /\ start_index - 5 > 0 => start_index - 5 < N
    /\ valid = MenuChoices /\ Accepted /\ result.value = PyStr(S_rd)
          /\ view_from = 0 /\ N = 0 =>
          pc = "menu" /\ Printed(Ev("no_more")) /\ shown = <<>>

C3_Witness ==
    /\ pc = "menu"
    /\ view_from = 0
    /\ Printed(Ev("no_more"))
    /\ Len(df.rows) = 11
    /\ start_index = 15
    /\ shown = UpTo(11)

(* C4: at every prompt, a line that is 'end' in any letter case and with    *)
(* surrounding whitespace ends the program at once: nothing is printed,     *)
(* nothing is loaded or changed, and no step follows.                       *)
C4_SentinelEndsTheProgram ==
    [][/\ pc \notin Ended
       /\ IsSentinel(line') =>
             /\ pc' = "exited"
             /\ out' = <<>>
             /\ <<files, filters, city, month, day, df, start_index, rd_index, shown>>'
                   = <<files, filters, city, month, day, df, start_index, rd_index, shown>>]_vars

C4_Witness ==
    /\ pc = "exited"
    /\ valid = MenuChoices
    /\ line # S_end
    /\ Len(df.rows) > 0
    /\ start_index > 0

(* C5: when the dataset has no Gender column user statistics report gender  *)
(* data as unavailable naming the selected city, likewise for Birth Year,   *)
(* and in both cases the action completes and the menu is prompted again.   *)
C5_MissingColumnsAreReported ==
    valid = MenuChoices /\ Accepted /\ result.value = PyStr(S_us) =>
        /\ "Gender" \notin df.cols =>
              /\ pc = "menu"
              /\ \E c \in Chosen(city) : Printed(EvNaming("no_gender", Title(c)))
        /\ "Birth Year" \notin df.cols =>
              /\ pc = "menu"
              /\ \E c \in Chosen(city) : Printed(EvNaming("no_birth_year", Title(c)))

(* C6: every menu action completes on every dataset the filters can         *)
(* produce, the empty one included, and the menu is prompted again; the     *)
(* session leaves the dispatch loop only on 'r' or on the escape sentinel.  *)
C6_MenuActionsAlwaysComplete ==
    valid = MenuChoices /\ Accepted =>
        /\ pc \in {"menu", "resume", "more", "restart"}
        /\ pc = "restart" <=> result.value = PyStr(S_r)

(* C9: the menu is prompted again after every action but 'r'; 'r' asks      *)
(* whether to restart; 'y' re-prompts the filters from the city before any  *)
(* load, 'n' ends the program; the program ends only by that 'n' or by the  *)
(* escape sentinel.                                                         *)
C9_DispatchLoopAndRestart ==
    [][/\ pc \notin Ended
       /\ pc = "menu" /\ AcceptedNext /\ result'.value # PyStr(S_r)
             => pc' \in {"menu", "resume", "more"}
       /\ pc = "menu" /\ AcceptedNext /\ result'.value = PyStr(S_r) => pc' = "restart"
       /\ pc = "restart" /\ AcceptedNext /\ result'.value = PyStr(S_y)
             => pc' = "city" /\ df' = df /\ ~PrintedNext(Ev("loaded"))
       /\ pc = "restart" /\ AcceptedNext /\ result'.value = PyStr(S_n) => pc' = "done"
       /\ pc' \in Ended =>
             \/ pc = "restart" /\ AcceptedNext /\ result'.value = PyStr(S_n)
             \/ result'.status = "exit"]_vars

(* C10: the filter prompts come in the order city, month, weekday,          *)
(* confirmation; 'n' at the confirmation returns to the city prompt with    *)
(* nothing loaded; data is loaded only on a 'y' confirmation, and with      *)
(* exactly the values of the lines most recently entered, which are the     *)
(* ones the confirmation prompt showed.                                     *)
C10_FiltersPromptedInOrderAndLoadedAsConfirmed ==
    [][/\ pc = "city" =>
             /\ pc' \in {"city", "month", "exited"}
             /\ pc' = "month" => filters'.city = ValueOf(line')
       /\ pc = "month" =>
             /\ pc' \in {"month", "day", "exited"}
             /\ filters'.city = filters.city
             /\ pc' = "day" => filters'.month = ValueOf(line')
       /\ pc = "day" =>
             /\ pc' \in {"day", "confirm", "exited"}
             /\ filters'.city = filters.city /\ filters'.month = filters.month
             /\ pc' = "confirm" => filters'.day = ValueOf(line')
       /\ pc = "confirm" =>
             /\ pc' \in {"confirm", "city", "menu", "exited", "crashed"}
             /\ filters' = filters
             /\ AcceptedNext /\ result'.value = PyStr(S_n) =>
                   pc' = "city" /\ df' = df /\ ~PrintedNext(Ev("loading"))
             /\ PrintedNext(Ev("loading")) <=> (AcceptedNext /\ result'.value = PyStr(S_y))
             /\ pc' \in {"menu", "crashed"} => PrintedNext(Ev("loading"))
       /\ PrintedNext(Ev("loading")) =>
             /\ pc = "confirm" /\ AcceptedNext /\ result'.value = PyStr(S_y)
             /\ city' = filters.city /\ month' = filters.month /\ day' = filters.day
       /\ PrintedNext(Ev("loaded")) =>
             /\ PrintedNext(Ev("loading"))
             /\ df' = LoadData(files, filters.city, filters.month, filters.day)]_vars

C10_Witness ==
    /\ pc = "menu"
    /\ Printed(Ev("loaded"))
    /\ city.isList /\ month.isList /\ ~day.isList
    /\ city # None
    /\ Len(df.rows) > 0

----------------------------------------------------------------------------
(* Specification of the duration statistics alone:                          *)
(* display_trip_duration_stats applied to datasets of no row, of one row of *)
(* every Trip Duration up to MaxDuration, and of two rows whose durations   *)
(* sum to that.                                                             *)

DurationRows(durs) ==
    [i \in 1..Len(durs) |->
        [src |-> "chicago.csv", idx |-> i, start |-> [month |-> 1, dow |-> 0],
         dur |-> durs[i], birth |-> NaN, Month |-> 1, Weekday |-> DayName(0)]]

InitDuration ==
    /\ \E t \in 0..MaxDuration :
          \E durs \in {<<>>, <<t>>, <<t \div 2, t - (t \div 2)>>} :
             df = [rows |-> DurationRows(durs),
                   cols |-> BaseCols \cup {"Month", "Weekday", "Start Hour"}]
    /\ pc = "call_tds"
    /\ files = [f \in Range(CITY_DATA) |-> EmptyFrame]
    /\ line = <<>>
    /\ valid = {}
    /\ result = NoResult
    /\ filters = NoFilters
    /\ city = None /\ month = None /\ day = None
    /\ start_index = 0
    /\ rd_index = 0
    /\ view_from = NoView
    /\ out = <<>>
    /\ shown = <<>>

DurationStep ==
    /\ pc = "call_tds"
    /\ out' = DisplayTripDurationStats(df).out
    /\ pc' = "tds_done"
    /\ UNCHANGED <<files, line, valid, result, filters, city, month, day, df,
                   start_index, rd_index, view_from, shown>>

NextDuration == DurationStep

SpecDuration == InitDuration /\ [][NextDuration]_vars

\* the text printed for the event of the given kind
TextOf(kind) == (CHOOSE e \in Range(out) : e.ev = kind).arg

\* the sum of the Trip Duration column, by positions
RECURSIVE SumOver(_, _)
SumOver(rows, n) == IF n = 0 THEN 0 ELSE rows[n].dur + SumOver(rows, n - 1)

TotalOf(frame) == SumOver(frame.rows, Len(frame.rows))

S_1d1h1m1s == <<"1","d"," ","1","h"," ","1","m"," ","1","s">>

(* C16: the total duration T is printed as 'Dd Hh Mm Ss' with 0 <= H < 24,  *)
(* 0 <= M < 60, 0 <= S < 60 and 86400*D + 3600*H + 60*M + S = T; 90061      *)
(* seconds are printed as '1d 1h 1m 1s'.                                    *)
C16_TotalDurationIsDaysHoursMinutesSeconds ==
    pc = "tds_done" =>
        LET T == TotalOf(df) IN
        /\ \E D \in 0..(T \div 86400) :
              /\ T - 86400 * D \in 0..86399
              /\ \E H \in 0..23 :
                    /\ T - 86400 * D - 3600 * H \in 0..3599
                    /\ \E M \in 0..59 :
                          LET S == T - 86400 * D - 3600 * H - 60 * M IN
                          /\ S \in 0..59
                          /\ 86400 * D + 3600 * H + 60 * M + S = T
                          /\ TextOf("total_travel_time") =
                                Dec(D) \o <<"d", " ">> \o Dec(H) \o <<"h", " ">>
                                   \o Dec(M) \o <<"m", " ">> \o Dec(S) \o <<"s">>
        /\ T = 90061 => TextOf("total_travel_time") = S_1d1h1m1s

C16_Witness ==
    /\ pc = "tds_done"
    /\ Len(df.rows) = 2
    /\ TotalOf(df) = 90061
    /\ TextOf("total_travel_time") = S_1d1h1m1s

S_2m5_5s == <<"2","m"," ","5",".","5","s">>

\* the whole minutes in the mean total / count
WholeMinutes(total, count) ==
    CHOOSE m \in 0..(total \div 60) : 60 * m * count <= total /\ total < 60 * (m + 1) * count

(* C17: the mean duration is printed as '<minutes>m <seconds>s', minutes    *)
(* being the whole number of minutes in the mean; a mean of 125.5 seconds   *)
(* is printed as '2m 5.5s'.                                                 *)
C17_MeanDurationIsMinutesAndSeconds ==
    pc = "tds_done" /\ Len(df.rows) > 0 =>
        LET T == TotalOf(df)
            n == Len(df.rows)
            minutes == Dec(WholeMinutes(T, n)) IN
        /\ SubSeq(TextOf("average_travel_time"), 1, Len(minutes) + 1) = minutes \o <<"m">>
        /\ 2 * T = 251 * n => TextOf("average_travel_time") = S_2m5_5s

----------------------------------------------------------------------------
(* Session properties of the cursor, the paginator and the dataset *)

Dispatching == {"menu", "resume", "more", "restart"}

ChoseNext(choice) == AcceptedNext /\ result'.value = PyStr(choice)

(* C11: whenever the session enters the dispatch loop after a load, after a *)
(* restart too and whatever the cursor was before, the cursor is 0; it      *)
(* stays 0 until raw data is viewed, and the raw-data view chosen at cursor *)
(* 0 starts at row 0 without a resume question.                             *)
C11_CursorIsZeroAfterEveryLoad ==
    [][/\ PrintedNext(Ev("loaded")) => pc' = "menu" /\ start_index' = 0
       /\ pc \notin Dispatching /\ pc' \in Dispatching => pc' = "menu" /\ start_index' = 0
       /\ pc = "menu" /\ start_index = 0 /\ ~ChoseNext(S_rd) => start_index' = 0
       /\ pc = "menu" /\ start_index = 0 /\ ChoseNext(S_rd) =>
             /\ pc' \in {"more", "menu"}
             /\ PrintedNext(Ev("page"))
             /\ view_from' = 0
             /\ Len(df.rows) > 0 => shown'[1] = 0]_vars

C11_Witness ==
    /\ pc = "menu"
    /\ Printed(Ev("loaded"))
    /\ start_index = 0
    /\ rd_index >= 10
    /\ Len(df.rows) > 0

(* C12: raw data chosen at a nonzero cursor asks whether to resume before   *)
(* any row is printed; 'y' starts at the saved cursor, 'n' at 0; at cursor  *)
(* 0 nothing is asked; the paginator sets its cursor to 0 in no other case. *)
C12_ResumeQuestionAndReset ==
    [][/\ pc = "menu" /\ ChoseNext(S_rd) /\ start_index > 0 =>
             /\ pc' = "resume"
             /\ rd_index' = start_index
             /\ shown' = <<>> /\ ~PrintedNext(Ev("page"))
       /\ pc = "menu" /\ ChoseNext(S_rd) /\ start_index = 0 => pc' # "resume"
       /\ pc = "resume" /\ ChoseNext(S_y) =>
             /\ view_from' = rd_index
             /\ rd_index < Len(df.rows) => shown'[1] = rd_index
       /\ pc = "resume" /\ ChoseNext(S_n) =>
             /\ view_from' = 0
             /\ Len(df.rows) > 0 => shown'[1] = 0
       /\ pc = "resume" /\ AcceptedNext /\ ~ChoseNext(S_n) => view_from' = rd_index
       /\ pc \in {"resume", "more"} /\ rd_index' < rd_index => pc = "resume" /\ ChoseNext(S_n)
       /\ pc' = "resume" => pc \in {"menu", "resume"}]_vars

C12_Witness ==
    /\ pc = "more"
    /\ view_from = 5
    /\ shown = <<5, 6, 7, 8, 9>>
    /\ start_index = 5

(* C13: an invalid input - an unrecognized choice or a comma-separated line *)
(* with a token outside the valid set - repeats the same prompt after the   *)
(* notice and changes nothing else; the program has not ended, and a valid  *)
(* input and the escape sentinel are accepted afterwards.                   *)
C13_InvalidInputRepromptsOnly ==
    [][/\ (\E k \in 1..Len(TokensOf(line')) : TokensOf(line')[k] \notin valid')
             /\ ~IsSentinel(line') =>
             /\ result'.status = "reject"
             /\ pc' = pc
             /\ out' = <<Ev("invalid")>>
             /\ <<files, filters, city, month, day, df, start_index, rd_index, view_from, shown>>'
                   = <<files, filters, city, month, day, df, start_index, rd_index, view_from, shown>>
       /\ Printed(Ev("invalid")) =>
             /\ pc \notin Ended
             /\ IsSentinel(line') => result'.status = "exit" /\ pc' = "exited"
             /\ (\A k \in 1..Len(TokensOf(line')) : TokensOf(line')[k] \in valid') =>
                   AcceptedNext /\ result'.value = ValueOf(line')
                      /\ out' # <<Ev("invalid")>>]_vars

C13_Witness ==
    /\ pc = "more"
    /\ result.status = "reject"
    /\ out = <<Ev("invalid")>>
    /\ Len(shown) = 10
    /\ rd_index = 10
    /\ start_index = 0

(* C14: a view step at cursor c over N rows prints exactly the rows         *)
(* c .. min(c+5, N)-1 and advances the cursor to c + 5; when c >= N it      *)
(* prints no row and signals 'no more data'.                                *)
C14_ViewStepPrintsFiveAndAdvances ==
    [][PrintedNext(Ev("page")) =>
          LET c == IF pc = "more" THEN rd_index
                   ELSE IF pc = "resume" THEN (IF ChoseNext(S_n) THEN 0 ELSE rd_index)
                   ELSE start_index
              printed == IF pc = "more" THEN SubSeq(shown', Len(shown) + 1, Len(shown'))
                         ELSE shown'
              N == Len(df.rows)
          IN /\ Len(printed) = Cardinality({q \in 0..(N - 1) : c <= q /\ q < c + 5})
             /\ \A k \in 1..Len(printed) : printed[k] = c + k - 1
             /\ rd_index' = c + 5
             /\ pc' = "menu" => start_index' = c + 5
             /\ c >= N => printed = <<>> /\ PrintedNext(Ev("no_more")) /\ pc' = "menu"]_vars

C14_Witness ==
    /\ pc = "menu"
    /\ Printed(Ev("no_more"))
    /\ Len(df.rows) = 3
    /\ view_from = 5
    /\ shown = <<>>
    /\ start_index = 10

(* C15: when the file of a selected city cannot be read the load fails      *)
(* visibly, and the dispatch loop is never reached with a dataset that      *)
(* lacks the rows of that city.                                             *)
C15_UnreadableSourceFailsTheLoad ==
    [][/\ pc' \in Dispatching => \A c \in Chosen(city') : CITY_DATA[c] \in DOMAIN files'
       /\ pc = "confirm" /\ ChoseNext(S_y)
             /\ (\E c \in Chosen(filters.city) : CITY_DATA[c] \notin DOMAIN files) =>
             /\ pc' = "crashed"
             /\ PrintedNext(Traceback)
             /\ ~PrintedNext(Ev("loaded"))
             /\ df' = df]_vars

C15_Witness ==
    /\ pc = "crashed"
    /\ Printed(Traceback)
    /\ city.isList
    /\ \E c \in Chosen(city) : CITY_DATA[c] \notin DOMAIN files
    /\ \E c \in Chosen(city) : CITY_DATA[c] \in DOMAIN files /\ files[CITY_DATA[c]].rows # <<>>

(* C18: within a load cycle no menu action changes the rows of the dataset, *)
(* their order or their values; station statistics adds the                 *)
(* 'Start-End Combination' column and nothing else changes the columns; the *)
(* dataset is replaced only by the load that follows a confirmation.        *)
C18_DatasetChangesOnlyByStationColumnAndLoad ==
    [][/\ pc \in Dispatching =>
             /\ df'.rows = df.rows
             /\ \/ df'.cols = df.cols
                \/ /\ pc = "menu" /\ ChoseNext(S_ss)
                   /\ df'.cols = df.cols \cup {"Start-End Combination"}
       /\ pc \notin Dispatching /\ df' # df => pc = "confirm" /\ PrintedNext(Ev("loaded"))]_vars

C18_Witness ==
    /\ pc = "menu"
    /\ "Start-End Combination" \in df.cols
    /\ Len(df.rows) = 11
    /\ start_index = 15
    /\ \E k \in 1..Len(out) : out[k].ev = "total_travel_time"

(* C19: within a load cycle only the raw-data action changes the cursor:    *)
(* the statistics, an invalid menu input and the restart question leave it, *)
(* the raw-data view leaves in it the index at which it stopped, and the    *)
(* next raw-data view offers to resume from there.                          *)
C19_OnlyRawDataMovesTheCursor ==
    [][/\ pc = "menu" /\ ~ChoseNext(S_rd) => start_index' = start_index
       /\ pc = "restart" => start_index' = start_index
       /\ pc \in {"resume", "more"} =>
             start_index' = IF pc' = "menu" THEN rd_index' ELSE start_index
       /\ pc = "menu" /\ ChoseNext(S_rd) /\ start_index > 0 =>
             pc' = "resume" /\ rd_index' = start_index /\ start_index' = start_index]_vars

C19_Witness ==
    /\ pc = "resume"
    /\ rd_index = 5
    /\ Len(df.rows) = 11
    /\ "Start-End Combination" \in df.cols

(* C20: in every reachable state the cursor is a non-negative multiple of 5 *)
C20_CursorIsMultipleOfFive ==
    /\ start_index >= 0 /\ start_index % 5 = 0
    /\ rd_index >= 0 /\ rd_index % 5 = 0

C20_Witness ==
    /\ pc = "menu"
    /\ start_index = 20
    /\ Len(df.rows) = 11
====
